---- MODULE Spec2Model ----
(***************************************************************************)
(* Provider side of the pgsql relation (src/provides.py, class PostgreSQL). *)
(*                                                                         *)
(* One conversation per remote service (scope = scopes.SERVICE).  A        *)
(* conversation holds the settings the remote service published (read by   *)
(* get_remote), the settings this side published (written by set_remote),  *)
(* this side's own memory (get_local / set_local) and the conversation's   *)
(* states (set_state / remove_state).                                      *)
(*                                                                         *)
(* Python values are modelled as options: NoneVal is Python's None, and    *)
(* Val(v) is the value v.  A string that the code parses (the remote       *)
(* 'roles') is a sequence of one-character strings; a role list is a       *)
(* sequence of such strings.  requested_roles is modelled with the list    *)
(* semantics of filter() (Python 2, the interpreter of the shebang line).  *)
(***************************************************************************)
EXTENDS Integers, Sequences, FiniteSets, TLC

VARIABLES
    remote,      \* settings published by each remote service (get_remote)
    published,   \* settings this side published to each service (set_remote)
    local,       \* this side's memory per conversation (get_local/set_local)
    states,      \* states active per conversation (set_state/remove_state)
    pending,     \* a joined/changed hook is still to be delivered
    declared,    \* history: what each remote service last declared
    served,      \* history: services whose roles request is acknowledged
    unanswered   \* history: differences found and not answered since

vars == <<remote, published, local, states, pending,
          declared, served, unanswered>>

----------------------------------------------------------------------------
(* Bounds and input domains.  The remote service either declares the name  *)
(* "a" or declares none (the default request ""); the provider provides    *)
(* "a", which is the declared name in the first case and a name of its own *)
(* choosing in the second.                                                 *)

NumCredentials == 1

Services == {"s1", "s2"}

DatabaseNames == {"a"}

ProvidedNames == {"a"}

RoleStrings == { <<"a", ",">> }

AckedRoles == { <<>>, << <<"a">> >> }

Credentials == 1..NumCredentials

MaxRolesLen == 5

RoleChars == {"a", "b", ","}

AllRoleStrings == UNION { [1..n -> RoleChars] : n \in 0..MaxRolesLen }

----------------------------------------------------------------------------
(* Python values *)

NoneVal == <<>>

Val(v) == <<v>>

DbRequested == "database.requested"

RolesRequested == "roles.requested"

----------------------------------------------------------------------------
(* Conversation primitives *)

get_remote(p, key, default) ==
    IF remote[p][key] = NoneVal THEN Val(default) ELSE remote[p][key]

get_local(p, key) == local[p][key]

set_local(loc, p, key, value) ==
    [loc EXCEPT ![p] = [@ EXCEPT ![key] = Val(value)]]

set_remote(pub, p, fields) == [pub EXCEPT ![p] = Val(fields)]

set_state(st, p, name) == [st EXCEPT ![p] = @ \cup {name}]

remove_state_all(st, p, name) == [st EXCEPT ![p] = {}]

remove_state_global(st, p, name) == [q \in DOMAIN st |-> st[q] \ {name}]

remove_state(st, p, name) == [st EXCEPT ![p] = @ \ {name}]

conversations == Services

conversation_list ==
    CHOOSE l \in [1..Cardinality(conversations) -> conversations] :
        \A p \in conversations : \E i \in DOMAIN l : l[i] = p

----------------------------------------------------------------------------
(* Query API *)

RECURSIVE split(_, _)
split(s, sep) ==
    IF s = <<>> THEN << <<>> >>
    ELSE LET rest == split(Tail(s), sep)
         IN  IF Head(s) = sep
             THEN << <<>> >> \o rest
             ELSE << <<Head(s)>> \o Head(rest) >> \o Tail(rest)

filter_none_keep(l) == l

RECURSIVE filter_none(_)
filter_none(l) ==
    IF l = <<>> THEN <<>>
    ELSE IF Head(l) = <<>> THEN filter_none(Tail(l))
         ELSE <<Head(l)>> \o filter_none(Tail(l))

_roles(p) == Val(filter_none(split(get_remote(p, "roles", <<>>)[1], ",")))

requested_roles(p) == _roles(p)

previous_roles(p) == get_local(p, "roles")

requested_database_merged(p) ==
    IF published[p] # NoneVal
    THEN Val(published[p][1].database)
    ELSE get_remote(p, "database", "")

requested_database(p) == get_remote(p, "database", "")

previous_database(p) == get_local(p, "database")

requested_databases_flagged ==
    LET l == SelectSeq(conversation_list,
                       LAMBDA p : "database.requested" \in states[p])
    IN  [i \in DOMAIN l |-> <<l[i], requested_database(l[i])>>]

requested_databases ==
    [i \in DOMAIN conversation_list |->
        <<conversation_list[i], requested_database(conversation_list[i])>>]

requested_roles_all ==
    [i \in DOMAIN conversation_list |->
        <<conversation_list[i], _roles(conversation_list[i])>>]

----------------------------------------------------------------------------
(* The comparisons of the claims, stated on the variables themselves *)

DeclaredDatabase(p) ==
    IF declared[p].database = NoneVal THEN Val("") ELSE declared[p].database

DatabaseDiffers(p) ==
    local[p].database #
        (IF remote[p].database = NoneVal THEN Val("") ELSE remote[p].database)

ParsedRoles(p) ==
    Val(filter_none(split(
        IF remote[p].roles = NoneVal THEN <<>> ELSE remote[p].roles[1], ",")))

RolesDiffer(p) == local[p].roles # ParsedRoles(p)

HasDb(p) == DbRequested \in states[p]

HasRoles(p) == RolesRequested \in states[p]

----------------------------------------------------------------------------
(* Initial state: every service is related, nothing published, nothing     *)
(* acknowledged, no state set, the relation-joined hook still to run.      *)

Init ==
    /\ remote = [p \in Services |-> [database |-> NoneVal, roles |-> NoneVal]]
    /\ published = [p \in Services |-> NoneVal]
    /\ local = [p \in Services |-> [database |-> NoneVal, roles |-> NoneVal]]
    /\ states = [p \in Services |-> {}]
    /\ pending = [p \in Services |-> TRUE]
    /\ declared = [p \in Services |-> [database |-> NoneVal, roles |-> NoneVal]]
    /\ served = {}
    /\ unanswered = [p \in Services |-> {}]

----------------------------------------------------------------------------
(* The remote service changes its own relation settings; the runtime will  *)
(* deliver a relation-changed hook for it.                                 *)

RemoteSetDatabase(p, v) ==
    /\ remote[p].database # v
    /\ remote' = [remote EXCEPT ![p] = [@ EXCEPT !.database = v]]
    /\ pending' = [pending EXCEPT ![p] = TRUE]
    /\ declared' = [declared EXCEPT ![p] = [@ EXCEPT !.database = v]]
    /\ UNCHANGED <<published, local, states, served, unanswered>>

RemoteSetRoles(p, v) ==
    /\ remote[p].roles # v
    /\ remote' = [remote EXCEPT ![p] = [@ EXCEPT !.roles = v]]
    /\ pending' = [pending EXCEPT ![p] = TRUE]
    /\ declared' = [declared EXCEPT ![p] = [@ EXCEPT !.roles = v]]
    /\ served' = served \ {p}
    /\ UNCHANGED <<published, local, states, unanswered>>

----------------------------------------------------------------------------
(* Negotiation evaluator: the relation-joined / relation-changed hook *)

EvalDatabase_named_only(st, p) ==
    IF /\ requested_database(p) # Val("")
       /\ previous_database(p) # requested_database(p)
    THEN set_state(st, p, DbRequested)
    ELSE st

EvalDatabase_none_as_empty(st, p) ==
    IF (IF previous_database(p) = NoneVal THEN Val("") ELSE previous_database(p))
           # requested_database(p)
    THEN set_state(st, p, DbRequested)
    ELSE st

EvalDatabase_derived(st, p) ==
    IF previous_database(p) # requested_database(p)
    THEN set_state(st, p, DbRequested)
    ELSE remove_state(st, p, DbRequested)

EvalDatabase(st, p) ==
    IF previous_database(p) # requested_database(p)
    THEN set_state(st, p, DbRequested)
    ELSE st

EvalRoles_derived(st, p) ==
    IF previous_roles(p) # requested_roles(p)
    THEN set_state(st, p, RolesRequested)
    ELSE remove_state(st, p, RolesRequested)

EvalRoles_always(st, p) == set_state(st, p, RolesRequested)

EvalRoles(st, p) ==
    IF previous_roles(p) # requested_roles(p)
    THEN set_state(st, p, RolesRequested)
    ELSE st

joined_changed_baseline(p) ==
    /\ states' = EvalRoles(EvalDatabase(states, p), p)
    /\ pending' = [pending EXCEPT ![p] = FALSE]
    /\ local' = IF local[p].database = NoneVal
                 THEN set_local(local, p, "database", requested_database(p)[1])
                 ELSE local
    /\ unanswered' = [unanswered EXCEPT ![p] =
                          @ \cup {n \in {DbRequested} : DatabaseDiffers(p)}
                            \cup {n \in {RolesRequested} : RolesDiffer(p)}]
    /\ UNCHANGED <<remote, published, declared, served>>

joined_changed(p) ==
    /\ states' = EvalRoles(EvalDatabase(states, p), p)
    /\ pending' = [pending EXCEPT ![p] = FALSE]
    /\ unanswered' = [unanswered EXCEPT ![p] =
                          @ \cup {n \in {DbRequested} : DatabaseDiffers(p)}
                            \cup {n \in {RolesRequested} : RolesDiffer(p)}]
    /\ UNCHANGED <<remote, published, local, declared, served>>

----------------------------------------------------------------------------
(* Provisioning API.  The not_until decorator only logs a warning when its *)
(* state is not active and then calls the method, so the body always runs. *)

Answer(c, database) ==
    [host |-> <<"host", c>>, port |-> 5432 + c, database |-> database,
     user |-> <<"user", c>>, password |-> <<"password", c>>,
     schema_user |-> <<"schema_user", c>>,
     schema_password |-> <<"schema_password", c>>,
     state |-> <<"state", c>>]

provide_database_requested(p, host, port, database, user, password, schema_user, schema_password, state) ==
    /\ published' = set_remote(published, p,
                        [host |-> host, port |-> port, database |-> database,
                         user |-> user, password |-> password,
                         schema_user |-> schema_user,
                         schema_password |-> schema_password,
                         state |-> state])
    /\ local' = set_local(local, p, "database", requested_database(p)[1])
    /\ states' = remove_state(states, p, DbRequested)
    /\ unanswered' = [unanswered EXCEPT ![p] = @ \ {DbRequested}]
    /\ UNCHANGED <<remote, pending, declared, served>>

provide_database(p, host, port, database, user, password, schema_user, schema_password, state) ==
    /\ published' = set_remote(published, p,
                        [host |-> host, port |-> port, database |-> database,
                         user |-> user, password |-> password,
                         schema_user |-> schema_user,
                         schema_password |-> schema_password,
                         state |-> state])
    /\ local' = set_local(local, p, "database", database)
    /\ states' = remove_state(states, p, DbRequested)
    /\ unanswered' = [unanswered EXCEPT ![p] = @ \ {DbRequested}]
    /\ UNCHANGED <<remote, pending, declared, served>>

ProvideDatabase(p, c, database) ==
    LET a == Answer(c, database)
    IN  provide_database(p, a.host, a.port, a.database, a.user, a.password,
                         a.schema_user, a.schema_password, a.state)

ack_roles_rederived(p, roles) ==
    /\ local' = set_local(local, p, "roles", requested_roles(p)[1])
    /\ states' = remove_state(states, p, RolesRequested)
    /\ served' = IF RolesRequested \in states[p] /\ Val(roles) = ParsedRoles(p)
                  THEN served \cup {p} ELSE served \ {p}
    /\ unanswered' = [unanswered EXCEPT ![p] = @ \ {RolesRequested}]
    /\ UNCHANGED <<remote, published, pending, declared>>

ack_roles(p, roles) ==
    /\ local' = set_local(local, p, "roles", roles)
    /\ states' = remove_state(states, p, RolesRequested)
    /\ served' = IF RolesRequested \in states[p] /\ Val(roles) = ParsedRoles(p)
                  THEN served \cup {p} ELSE served \ {p}
    /\ unanswered' = [unanswered EXCEPT ![p] = @ \ {RolesRequested}]
    /\ UNCHANGED <<remote, published, pending, declared>>

----------------------------------------------------------------------------

Next ==
    \/ \E p \in Services, v \in {NoneVal} \cup {Val(d) : d \in DatabaseNames} :
           RemoteSetDatabase(p, v)
    \/ \E p \in Services, v \in {NoneVal} \cup {Val(r) : r \in RoleStrings} :
           RemoteSetRoles(p, v)
    \/ \E p \in Services : joined_changed(p)
    \/ \E p \in Services, c \in Credentials, d \in ProvidedNames :
           ProvideDatabase(p, c, d)
    \/ \E p \in Services, r \in AckedRoles : ack_roles(p, r)

Spec == Init /\ [][Next]_vars

----------------------------------------------------------------------------
(* The parsing of the remote 'roles': one service has declared any string  *)
(* of at most MaxRolesLen characters; the hook runs and the provider       *)
(* acknowledges what requested_roles returns, as in the usage example of   *)
(* requested_roles.                                                        *)

InitParse ==
    /\ \E p \in Services, s \in AllRoleStrings :
           remote = [q \in Services |->
                        [database |-> NoneVal,
                         roles |-> IF q = p THEN Val(s) ELSE NoneVal]]
    /\ declared = remote
    /\ published = [p \in Services |-> NoneVal]
    /\ local = [p \in Services |-> [database |-> NoneVal, roles |-> NoneVal]]
    /\ states = [p \in Services |-> {}]
    /\ pending = [p \in Services |-> TRUE]
    /\ served = {}
    /\ unanswered = [p \in Services |-> {}]

AckRequested(p) == ack_roles(p, requested_roles(p)[1])

NextParse ==
    \/ \E p \in Services : joined_changed(p)
    \/ \E p \in Services : AckRequested(p)

SpecParse == InitParse /\ [][NextParse]_vars

----------------------------------------------------------------------------
(* The provider as a dispatcher: after the hooks it answers every state    *)
(* that is set, with the database name the service requests and with the   *)
(* roles the service requests.  Hooks are delivered and set states are     *)
(* answered eventually (weak fairness); the remote services change their   *)
(* settings whenever they like.  The provider publishes one and the same   *)
(* connection information each time.                                       *)

DispatchDatabase(p) ==
    /\ DbRequested \in states[p]
    /\ LET c == CHOOSE c \in Credentials : TRUE
       IN  ProvideDatabase(p, c, requested_database(p)[1])

DispatchRoles(p) ==
    /\ RolesRequested \in states[p]
    /\ ack_roles(p, requested_roles(p)[1])

NextLive ==
    \/ \E p \in Services, v \in {NoneVal} \cup {Val(d) : d \in DatabaseNames} :
           RemoteSetDatabase(p, v)
    \/ \E p \in Services, v \in {NoneVal} \cup {Val(r) : r \in RoleStrings} :
           RemoteSetRoles(p, v)
    \/ \E p \in Services : joined_changed(p)
    \/ \E p \in Services : DispatchDatabase(p)
    \/ \E p \in Services : DispatchRoles(p)

Fairness ==
    \A p \in Services :
        /\ WF_vars(joined_changed(p))
        /\ WF_vars(DispatchDatabase(p))
        /\ WF_vars(DispatchRoles(p))

SpecLive == Init /\ [][NextLive]_vars /\ Fairness

----------------------------------------------------------------------------
(* Steps of the provisioning API on one service, with any arguments *)

ProvideStep(p) ==
    \E c \in Credentials, d \in ProvidedNames : ProvideDatabase(p, c, d)

AckStep(p) == \E r \in AckedRoles : ack_roles(p, r)

SameConversation(q) ==
    /\ remote'[q] = remote[q]
    /\ published'[q] = published[q]
    /\ local'[q] = local[q]
    /\ states'[q] = states[q]

----------------------------------------------------------------------------
(* C1: every run of the evaluator for a service whose requested database   *)
(* differs from the previous database ends with database.requested set for *)
(* that service; when the two are equal the run leaves the state as it was. *)
C1_EvaluatorDatabase ==
    [][\A p \in Services :
          joined_changed(p) =>
              IF DatabaseDiffers(p)
              THEN DbRequested \in states'[p]
              ELSE (DbRequested \in states'[p]) = (DbRequested \in states[p])
      ]_vars

C1_Witness ==
    \E p, q \in Services :
        /\ ~pending[p] /\ DatabaseDiffers(p) /\ HasDb(p)
        /\ ~pending[q] /\ ~DatabaseDiffers(q) /\ ~HasDb(q)

(* C2: every run of the evaluator for a service whose parsed remote roles   *)
(* differ from the local baseline ends with roles.requested set; when they  *)
(* are equal the run leaves roles.requested as it was.                      *)
C2_EvaluatorRoles ==
    [][\A p \in Services :
          joined_changed(p) =>
              IF RolesDiffer(p)
              THEN RolesRequested \in states'[p]
              ELSE (RolesRequested \in states'[p]) = (RolesRequested \in states[p])
      ]_vars

C2_Witness ==
    \E p, q \in Services :
        /\ ~pending[p] /\ RolesDiffer(p) /\ HasRoles(p)
        /\ ~pending[q] /\ ~RolesDiffer(q) /\ HasRoles(q)

(* C3: provide_database writes all eight answer fields of the call into    *)
(* the data published to the service in one step, and right after the call *)
(* the previous database is the database argument and database.requested   *)
(* is clear for the service.                                               *)
C3_ProvideDatabase ==
    [][\A p \in Services, c \in Credentials, d \in ProvidedNames :
          ProvideDatabase(p, c, d) =>
              /\ published'[p] =
                     Val([host |-> <<"host", c>>, port |-> 5432 + c,
                          database |-> d, user |-> <<"user", c>>,
                          password |-> <<"password", c>>,
                          schema_user |-> <<"schema_user", c>>,
                          schema_password |-> <<"schema_password", c>>,
                          state |-> <<"state", c>>])
              /\ local'[p].database = Val(d)
              /\ DbRequested \notin states'[p]
      ]_vars

C3_Witness ==
    \E p \in Services :
        /\ published[p] # NoneVal
        /\ local[p].database = Val(published[p][1].database)
        /\ local[p].database # DeclaredDatabase(p)
        /\ ~HasDb(p)

(* C4: ack_roles stores its roles argument as the local baseline exactly   *)
(* as given, not re-derived from the remote value, and right after the     *)
(* call roles.requested is clear for the service.                          *)
C4_AckRoles ==
    [][\A p \in Services, r \in AckedRoles :
          ack_roles(p, r) =>
              /\ local'[p].roles = Val(r)
              /\ RolesRequested \notin states'[p]
      ]_vars

C4_Witness ==
    \E p \in Services :
        /\ local[p].roles # NoneVal
        /\ local[p].roles # ParsedRoles(p)
        /\ p \notin served
        /\ ~pending[p]
        /\ ~HasRoles(p)

(* C5: once provide_database has cleared database.requested for a service, *)
(* a run of the evaluator while the service's declared database request is *)
(* unchanged does not set database.requested again, whatever the request   *)
(* was (the default request "" included).                                  *)
(* Stated on the step that clears the state: in the state it leaves, a   *)
(* run of the evaluator leaves database.requested clear.  The evaluator    *)
(* changes neither the remote nor the local database, so this covers any   *)
(* number of runs while the declared request is unchanged.                 *)
C5_DatabaseIdempotent ==
    [][\A p \in Services :
          (ProvideStep(p) /\ HasDb(p)) =>
              (DbRequested \notin EvalDatabase(states, p)[p])'
      ]_vars

(* C6: after ack_roles(P, requested_roles(P)) has cleared roles.requested, *)
(* a run of the evaluator while the remote roles of P are unchanged does   *)
(* not set roles.requested again.                                          *)
C6_RolesIdempotent ==
    [][\A p \in Services :
          (joined_changed(p) /\ p \in served) =>
              RolesRequested \notin states'[p]
      ]_vars

C6_Witness ==
    \E p \in Services :
        /\ p \in served
        /\ remote[p].roles # NoneVal
        /\ ~pending[p]
        /\ ~HasRoles(p)

(* C7 as stated: a state of a service is set if and only if the most       *)
(* recent evaluation for it found a difference: an evaluation leaves the   *)
(* state set exactly when it finds one, and no other step changes it.      *)
C7_FlagIffLastEvaluation ==
    [][\A p \in Services :
          /\ joined_changed(p) =>
                 /\ (DbRequested \in states'[p]) = DatabaseDiffers(p)
                 /\ (RolesRequested \in states'[p]) = RolesDiffer(p)
          /\ ~joined_changed(p) => states'[p] = states[p]
      ]_vars

(* C7 amended: database.requested (roles.requested) is set for a service   *)
(* if and only if some evaluation for it since the last provide_database   *)
(* (ack_roles) for it, or since the start, found a difference.             *)
C7_FlagIffUnanswered ==
    \A p \in Services : states[p] = unanswered[p]

C7_Witness ==
    \E p \in Services :
        /\ ~pending[p]
        /\ HasDb(p) /\ ~DatabaseDiffers(p)
        /\ ~HasRoles(p) /\ RolesDiffer(p)

(* C8: an evaluation for P1, provide_database(P1, ...) and ack_roles(P1,   *)
(* ...) leave the remote fields, the published and local fields and both   *)
(* states of every other service P2 unchanged.                             *)
C8_Isolation ==
    [][\A p, q \in Services :
          (p # q /\ (joined_changed(p) \/ ProvideStep(p) \/ AckStep(p))) =>
              SameConversation(q)
      ]_vars

C8_Witness ==
    \E p, q \in Services :
        /\ p # q
        /\ ~pending[p] /\ published[p] # NoneVal /\ local[p].roles # NoneVal
        /\ states[p] = {}
        /\ ~pending[q] /\ published[q] = NoneVal /\ local[q].roles = NoneVal
        /\ states[q] = {DbRequested, RolesRequested}

(* C9: in every reachable state requested_database(P) is the database the  *)
(* remote service currently declares ("" if it declares none), whatever    *)
(* the states are and whatever provide_database published for P.           *)
C9_RequestedIsDeclared ==
    \A p \in Services : requested_database(p) = DeclaredDatabase(p)

C9_Witness ==
    \E p \in Services :
        /\ published[p] # NoneVal
        /\ Val(published[p][1].database) # DeclaredDatabase(p)
        /\ requested_database(p) = Val("")
        /\ ~HasDb(p)

(* C10: provide_database(P, ...) called while database.requested is not    *)
(* set for P, and ack_roles(P, ...) called while roles.requested is not    *)
(* set for P, change nothing of P: published answer, local baseline and    *)
(* states stay as they were.                                               *)
C10_GuardedNoOp ==
    [][\A p \in Services :
          /\ (ProvideStep(p) /\ ~HasDb(p)) => SameConversation(p)
          /\ (AckStep(p) /\ ~HasRoles(p)) => SameConversation(p)
      ]_vars

(* C11: the local baseline changes only on acknowledgement: the evaluator  *)
(* leaves local 'database' and local 'roles' of every service unchanged,   *)
(* local 'database' changes only in provide_database and local 'roles'     *)
(* only in ack_roles, each for the service it is called for.               *)
C11_LocalOnlyOnAck ==
    [][\A p \in Services :
          /\ joined_changed(p) => local' = local
          /\ local'[p].database # local[p].database => ProvideStep(p)
          /\ local'[p].roles # local[p].roles => AckStep(p)
      ]_vars

C11_Witness ==
    \E p, q \in Services :
        /\ ~pending[p] /\ states[p] = {DbRequested, RolesRequested}
        /\ local[p] = [database |-> NoneVal, roles |-> NoneVal]
        /\ local[q].database # NoneVal /\ local[q].roles # NoneVal

(* The role names of a string, read off the string itself: the maximal     *)
(* runs of characters other than ',', in the order of the string.          *)
TokenStarts(s) ==
    {i \in 1..Len(s) : s[i] # "," /\ (i = 1 \/ s[i - 1] = ",")}

TokenEnd(s, i) ==
    CHOOSE j \in i..Len(s) :
        /\ \A k \in i..j : s[k] # ","
        /\ (j = Len(s) \/ s[j + 1] = ",")

NthStart(s, n) ==
    CHOOSE i \in TokenStarts(s) :
        Cardinality({k \in TokenStarts(s) : k < i}) = n - 1

RoleNames(s) ==
    [n \in 1..Cardinality(TokenStarts(s)) |->
        SubSeq(s, NthStart(s, n), TokenEnd(s, NthStart(s, n)))]

DeclaredRoles(p) ==
    IF declared[p].roles = NoneVal THEN <<>> ELSE declared[p].roles[1]

(* C12: requested_roles(P) is the remote 'roles' string of P split on ','  *)
(* with every empty token dropped and the order of the names kept ("a,,b," *)
(* gives ["a", "b"]); an absent or empty 'roles' gives the empty sequence. *)
C12_RequestedRolesParsed ==
    \A p \in Services :
        /\ requested_roles(p) = Val(RoleNames(DeclaredRoles(p)))
        /\ DeclaredRoles(p) = <<"a", ",", ",", "b", ",">> =>
               requested_roles(p) = Val(<< <<"a">>, <<"b">> >>)
        /\ DeclaredRoles(p) = <<>> => requested_roles(p) = Val(<<>>)

C12_Witness ==
    \E p \in Services :
        /\ remote[p].roles = Val(<<"a", ",", ",", "b", ",">>)
        /\ local[p].roles = Val(<< <<"a">>, <<"b">> >>)
        /\ p \in served

(* C13: requested_databases() and requested_roles() without a service     *)
(* yield exactly one (service, value) pair for every known conversation,   *)
(* whatever its states, and the value of each pair is what the service     *)
(* declares in the current state.                                          *)
C13_OnePairPerConversation ==
    /\ Len(requested_databases) = Cardinality(Services)
    /\ Len(requested_roles_all) = Cardinality(Services)
    /\ \A p \in Services :
          /\ \E i \in DOMAIN requested_databases :
                 requested_databases[i] = <<p, DeclaredDatabase(p)>>
          /\ \E i \in DOMAIN requested_roles_all :
                 requested_roles_all[i] = <<p, Val(RoleNames(DeclaredRoles(p)))>>

C13_Witness ==
    \E p, q \in Services :
        /\ states[p] = {DbRequested, RolesRequested}
        /\ states[q] = {} /\ ~pending[q] /\ q \in served
        /\ local[q].database = Val("a")
        /\ \E i \in DOMAIN requested_databases :
               requested_databases[i] = <<q, Val("a")>>
        /\ \E i \in DOMAIN requested_roles_all :
               requested_roles_all[i] = <<q, Val(<< <<"a">> >>)>>

(* C14: the evaluator never clears a state.  Once database.requested       *)
(* (roles.requested) is set for a service it stays set through every later *)
(* evaluation and remote change, the remote value going back to the        *)
(* acknowledged baseline included, until provide_database (ack_roles) is   *)
(* called for that service.                                                *)
C14_ClearOnlyOnAck ==
    [][\A p \in Services :
          /\ joined_changed(p) => states[p] \subseteq states'[p]
          /\ (HasDb(p) /\ DbRequested \notin states'[p]) => ProvideStep(p)
          /\ (HasRoles(p) /\ RolesRequested \notin states'[p]) => AckStep(p)
      ]_vars

C14_Witness ==
    \E p \in Services :
        /\ ~pending[p]
        /\ local[p].database # NoneVal /\ ~DatabaseDiffers(p) /\ HasDb(p)
        /\ local[p].roles # NoneVal /\ ~RolesDiffer(p) /\ HasRoles(p)

(* C15: for a service with no acknowledged baseline (local 'database'      *)
(* unset) an evaluation sets database.requested even when the service's    *)
(* remote 'database' is absent: the absent value is read as "" and counts  *)
(* as a pending request.                                                   *)
C15_DefaultRequestPending ==
    [][\A p \in Services :
          (joined_changed(p) /\ local[p].database = NoneVal) =>
              DbRequested \in states'[p]
      ]_vars

C15_Witness ==
    \E p \in Services :
        /\ ~pending[p]
        /\ remote[p].database = NoneVal /\ requested_database(p) = Val("")
        /\ local[p].database = NoneVal /\ published[p] = NoneVal
        /\ HasDb(p)

(* C16: an evaluation does not set roles.requested for a service whose     *)
(* remote 'roles' is absent or empty and for which no roles were ever      *)
(* acknowledged: the state is for services that requested specific roles.  *)
C16_NoRolesNoRequest ==
    [][\A p \in Services :
          (/\ joined_changed(p)
           /\ DeclaredRoles(p) = <<>>
           /\ local[p].roles = NoneVal
           /\ ~HasRoles(p)) =>
              RolesRequested \notin states'[p]
      ]_vars

(* C17: the two negotiations of one service are independent:               *)
(* provide_database(P, ...) leaves P's roles.requested and local 'roles'   *)
(* unchanged, and ack_roles(P, ...) leaves P's database.requested, local   *)
(* 'database' and everything published to P unchanged.                     *)
C17_NegotiationsIndependent ==
    [][\A p \in Services :
          /\ ProvideStep(p) =>
                 /\ (RolesRequested \in states'[p]) = (RolesRequested \in states[p])
                 /\ local'[p].roles = local[p].roles
          /\ AckStep(p) =>
                 /\ (DbRequested \in states'[p]) = (DbRequested \in states[p])
                 /\ local'[p].database = local[p].database
                 /\ published'[p] = published[p]
      ]_vars

C17_Witness ==
    \E p, q \in Services :
        /\ published[p] # NoneVal /\ ~HasDb(p)
        /\ HasRoles(p) /\ local[p].roles = NoneVal
        /\ local[q].roles # NoneVal /\ ~HasRoles(q)
        /\ HasDb(q) /\ local[q].database = NoneVal /\ published[q] = NoneVal

(* C18: in every reachable state in which every remote change of a service *)
(* has been evaluated and database.requested is clear for it, its          *)
(* requested database equals its previous database, whatever name          *)
(* provide_database was called with.                                       *)
C18_NoStaleAcknowledgement ==
    \A p \in Services :
        (~pending[p] /\ ~HasDb(p)) =>
            requested_database(p) = previous_database(p)

(* C19: if the remote request of a service eventually stops changing and   *)
(* the provider answers every set state with the requested database name   *)
(* and the requested roles, then eventually both states of the service are *)
(* clear and stay clear through all later evaluations.                     *)
RemoteChanges(p) == remote'[p] # remote[p]

====
